---- MODULE Spec2Model ----
(***************************************************************************)
(* Model of the library catalog of src/main.py: the Book record, the      *)
(* LibraryManagementSystem store (load_books, save_books, add_book,       *)
(* remove_book, search_books, update_book_status) and the storage file.   *)
(*                                                                         *)
(* Text is a sequence of one-character strings, so that lower(), the      *)
(* substring test and str(year) are computed and not assumed.             *)
(* The status literals "в наличии" / "выдана" are written "available" /   *)
(* "checked_out".                                                          *)
(***************************************************************************)
EXTENDS Integers, Sequences, FiniteSets, TLC

VARIABLES
    phase,     \* "new": no store constructed; "ready"; "crashed": __init__ raised
    books,     \* self.books
    file,      \* the content of self.storage_file
    call,      \* the last operation called and its arguments
    ret,       \* what that operation returned
    saved,     \* what save_books did in it: "none" (not called), "ok", "failed"
    raised,    \* the exception that escaped it, "none" if it returned
    failures   \* the number of file writes that failed so far

vars == <<phase, books, file, call, ret, saved, raised, failures>>

(* ----------------------------- bounds ---------------------------------- *)

\* the collection holds at most MaxBooks records
MaxBooks == 2
\* os.urandom(4) is modelled as a draw from 0..MaxId
MaxId == 1
\* at most MaxWriteFailures file writes fail in one behaviour
MaxWriteFailures == 1

(* ------------------------------ text ----------------------------------- *)

\* str.lower() on one character of the alphabet in use
LowerChar(c) ==
    CASE c = "D" -> "d"
      [] c = "U" -> "u"
      [] c = "A" -> "a"
      [] c = "B" -> "b"
      [] OTHER -> c

\* str.lower()
lower(s) == [i \in 1..Len(s) |-> LowerChar(s[i])]

\* does s occur in t at offset k (0-based)
MatchAt(s, t, k) == \A i \in 1..Len(s) : t[k + i] = s[i]

\* Python's  s in t  for str
In(s, t) == \E k \in 0..(Len(t) - Len(s)) : MatchAt(s, t, k)

DigitChar == <<"0", "1", "2", "3", "4", "5", "6", "7", "8", "9">>

RECURSIVE StrNat(_)
StrNat(n) ==
    IF n < 10 THEN <<DigitChar[n + 1]>>
    ELSE StrNat(n \div 10) \o <<DigitChar[(n % 10) + 1]>>

\* str(year) for an int
str(n) == IF n < 0 THEN <<"-">> \o StrNat(-n) ELSE StrNat(n)

(* ------------------------------ Book ----------------------------------- *)

Available == "available"
CheckedOut == "checked_out"

\* Book.generate_unique_id: the values os.urandom can yield
RandomIds == 0..MaxId

\* Book.__init__ leaving a status that is not enumerated
Book_nostatus(id, title, author, year) ==
    [id |-> id, title |-> title, author |-> author, year |-> year,
     status |-> "new"]

\* Book.__init__ with the id drawn by generate_unique_id
Book(id, title, author, year) ==
    [id |-> id, title |-> title, author |-> author, year |-> year,
     status |-> Available]

(* ------------------------- the storage file ---------------------------- *)

\* book.__dict__ as written by json.dump
BookDict(book) ==
    [id |-> book.id, title |-> book.title, author |-> book.author,
     year |-> book.year, status |-> book.status]

RequiredKeys == {"title", "author", "year", "id", "status"}

\* _dict_to_book: raises KeyError when a key is missing
HasKeys(book_dict) == RequiredKeys \subseteq DOMAIN book_dict

\* _dict_to_book without line 45: the status of the file is dropped
_dict_to_book_default(book_dict) ==
    [Book(0, book_dict.title, book_dict.author, book_dict.year)
        EXCEPT !.id = book_dict.id]

_dict_to_book(book_dict) ==
    [Book(0, book_dict.title, book_dict.author, book_dict.year)
        EXCEPT !.id = book_dict.id, !.status = book_dict.status]

NoFile == [kind |-> "absent", data |-> <<>>]
\* bytes that are not UTF-8
Undecodable == [kind |-> "undecodable", data |-> <<>>]
\* text that is not JSON (also an empty or partly written file)
Unparseable == [kind |-> "unparseable", data |-> <<>>]
\* a JSON number or null
JsonScalar == [kind |-> "scalar", data |-> <<>>]
\* a JSON object with at least one key
JsonObject == [kind |-> "object", data |-> <<>>]
\* a JSON array of objects
JsonList(dicts) == [kind |-> "list", data |-> dicts]

\* the exception load_books lets escape, "none" when it returns
LoadRaises(f) ==
    CASE f.kind = "undecodable" -> "UnicodeDecodeError"
      [] f.kind = "scalar" -> "TypeError"
      [] f.kind = "object" -> "TypeError"
      [] f.kind = "list" /\ (\E i \in 1..Len(f.data) : ~HasKeys(f.data[i]))
            -> "KeyError"
      [] OTHER -> "none"

\* the list load_books returns when it returns
load_books(f) ==
    IF f.kind = "list"
    THEN [i \in 1..Len(f.data) |-> _dict_to_book(f.data[i])]
    ELSE <<>>

WriteOutcomes == {"ok", "open_failed", "truncated"}

\* the file after save_books ran with outcome w
Written(bs, w, old) ==
    CASE w = "ok" -> JsonList([i \in 1..Len(bs) |-> BookDict(bs[i])])
      [] w = "open_failed" -> old
      [] OTHER -> Unparseable

(* ------------------------------ inputs --------------------------------- *)

Dune == <<<<"D", "u">>, <<"A", "b">>, 2020>>
Saga == <<<<"x", "d", "U">>, <<"d", "u">>, 12020>>
Tale == <<<< >>, <<"B">>, 202>>

\* the (title, author, year) triples add_book is called with
Triples == {Dune}

\* the (query, search_type) pairs search_books is called with
Searches ==
    { << << >>, "title" >>,
      << <<"D", "U">>, "title" >>,
      << <<"D", "U">>, "author" >>,
      << <<"2", "0", "2", "0">>, "year" >>,
      << << >>, "year" >>,
      << <<"2", "0", "2", "0">>, "isbn" >> }

\* the statuses update_book_status is called with
Statuses == {Available, CheckedOut, "lost"}

FileDict(id, t, status) ==
    [id |-> id, title |-> t[1], author |-> t[2], year |-> t[3],
     status |-> status]

\* what the storage file may hold when the program starts
InitialFiles ==
    { NoFile, Undecodable, Unparseable, JsonScalar, JsonObject,
      JsonList(<< >>),
      JsonList(<<FileDict(0, Saga, CheckedOut)>>),
      JsonList(<<[id |-> 1, title |-> Tale[1], author |-> Tale[2],
                  year |-> Tale[3], status |-> "lost", shelf |-> 3]>>),
      JsonList(<<FileDict(0, Dune, Available),
                 [id |-> 1, title |-> <<"D", "u">>, status |-> Available]>>) }

NoCall == [op |-> "none", book_id |-> -1, new_status |-> "-",
           query |-> << >>, search_type |-> "-"]

(* ---------------------------- operations ------------------------------- *)

Init ==
    /\ phase = "new"
    /\ books = << >>
    /\ file \in InitialFiles
    /\ call = NoCall
    /\ ret = "None"
    /\ saved = "none"
    /\ raised = "none"
    /\ failures = 0

\* LibraryManagementSystem.__init__
Construct ==
    /\ phase = "new"
    /\ call' = [NoCall EXCEPT !.op = "init"]
    /\ raised' = LoadRaises(file)
    /\ IF LoadRaises(file) = "none"
       THEN phase' = "ready" /\ books' = load_books(file)
       ELSE phase' = "crashed" /\ books' = << >>
    /\ ret' = "None"
    /\ saved' = "none"
    /\ UNCHANGED <<file, failures>>

\* the outcomes a file write can have in this state
Outcomes == IF failures < MaxWriteFailures THEN WriteOutcomes ELSE {"ok"}

\* save_books on the collection bs, the write ending with outcome w
save_books(bs, w) ==
    /\ file' = Written(bs, w, file)
    /\ saved' = IF w = "ok" THEN "ok" ELSE "failed"
    /\ failures' = IF w = "ok" THEN failures ELSE failures + 1

add_book(title, author, year, id, w) ==
    /\ phase = "ready"
    /\ Len(books) < MaxBooks
    /\ LET new_book == Book(id, title, author, year) IN
        /\ books' = Append(books, new_book)
        /\ save_books(Append(books, new_book), w)
        /\ ret' = new_book
    /\ call' = [NoCall EXCEPT !.op = "add"]
    /\ UNCHANGED <<phase, raised>>

\* [book for book in self.books if book.id != book_id]
RECURSIVE Without(_, _)
Without(bs, book_id) ==
    IF bs = << >> THEN << >>
    ELSE IF Head(bs).id # book_id
         THEN <<Head(bs)>> \o Without(Tail(bs), book_id)
         ELSE Without(Tail(bs), book_id)

\* the length test with <= : a removal that removed nothing counts
Shrunk_le(new_length, initial_length) == new_length <= initial_length

\* len(self.books) < initial_length
Shrunk(new_length, initial_length) == new_length < initial_length

remove_book(book_id, w) ==
    /\ phase = "ready"
    /\ books' = Without(books, book_id)
    /\ IF Shrunk(Len(Without(books, book_id)), Len(books))
       THEN /\ w \in Outcomes
            /\ save_books(Without(books, book_id), w)
            /\ ret' = TRUE
       ELSE /\ w = "ok"
            /\ ret' = FALSE
            /\ saved' = "none"
            /\ UNCHANGED <<file, failures>>
    /\ call' = [NoCall EXCEPT !.op = "remove", !.book_id = book_id]
    /\ UNCHANGED <<phase, raised>>

\* the year test as a substring test
YearTest_in(query, book) == In(query, str(book.year))

\* the test search_books applies under 'year'
YearTest(query, book) == query = str(book.year)

\* the test search_books applies under 'title' and 'author'
TextTest(query, text) == In(query, lower(text))

\* the condition of the list comprehension of the branch taken
Keeps(book, query, search_type) ==
    CASE search_type = "title" -> TextTest(query, book.title)
      [] search_type = "author" -> TextTest(query, book.author)
      [] search_type = "year" -> YearTest(query, book)

\* [book for book in self.books if <condition>]
RECURSIVE Select(_, _, _)
Select(bs, query, search_type) ==
    IF bs = << >> THEN << >>
    ELSE IF Keeps(Head(bs), query, search_type)
         THEN <<Head(bs)>> \o Select(Tail(bs), query, search_type)
         ELSE Select(Tail(bs), query, search_type)

SearchResult(bs, q, search_type) ==
    LET query == lower(q)
    IN  IF search_type \in {"title", "author", "year"}
        THEN Select(bs, query, search_type)
        ELSE << >>

search_books(query, search_type) ==
    /\ phase = "ready"
    /\ ret' = SearchResult(books, query, search_type)
    /\ call' = [NoCall EXCEPT !.op = "search", !.query = query,
                              !.search_type = search_type]
    /\ saved' = "none"
    /\ UNCHANGED <<phase, books, file, raised, failures>>

\* the status check left out
ValidStatus_any(new_status) == TRUE

\* new_status in ["в наличии", "выдана"]
ValidStatus(new_status) == new_status \in {Available, CheckedOut}

\* the loop without its return: every record with the id is assigned to
Targets_all(bs, book_id) == {i \in 1..Len(bs) : bs[i].id = book_id}

\* the records the loop of update_book_status assigns to
Targets(bs, book_id) ==
    LET hits == {i \in 1..Len(bs) : bs[i].id = book_id}
    IN  IF hits = {} THEN {}
        ELSE {CHOOSE i \in hits : \A j \in hits : i <= j}

update_book_status(book_id, new_status, w) ==
    /\ phase = "ready"
    /\ IF ValidStatus(new_status) /\ Targets(books, book_id) # {}
       THEN /\ w \in Outcomes
            /\ LET updated == [i \in 1..Len(books) |->
                                 IF i \in Targets(books, book_id)
                                 THEN [books[i] EXCEPT !.status = new_status]
                                 ELSE books[i]]
               IN  /\ books' = updated
                   /\ save_books(updated, w)
            /\ ret' = TRUE
       ELSE /\ w = "ok"
            /\ ret' = FALSE
            /\ saved' = "none"
            /\ UNCHANGED <<books, file, failures>>
    /\ call' = [NoCall EXCEPT !.op = "update", !.book_id = book_id,
                              !.new_status = new_status]
    /\ UNCHANGED <<phase, raised>>

\* choice 6 of main: the process ends, the next run starts without a store
Exit ==
    /\ phase = "ready"
    /\ phase' = "new"
    /\ books' = << >>
    /\ call' = NoCall
    /\ ret' = "None"
    /\ saved' = "none"
    /\ UNCHANGED <<file, raised, failures>>

Next ==
    \/ Construct
    \/ \E t \in Triples, id \in RandomIds, w \in Outcomes :
          add_book(t[1], t[2], t[3], id, w)
    \/ \E book_id \in RandomIds, w \in WriteOutcomes :
          remove_book(book_id, w)
    \/ \E s \in Searches : search_books(s[1], s[2])
    \/ \E book_id \in RandomIds, new_status \in Statuses,
          w \in WriteOutcomes :
          update_book_status(book_id, new_status, w)
    \/ Exit

Spec == Init /\ [][Next]_vars

TypeOK ==
    /\ phase \in {"new", "ready", "crashed"}
    /\ Len(books) <= MaxBooks + 1
    /\ saved \in {"none", "ok", "failed"}
    /\ failures \in 0..MaxWriteFailures

(* ------------------------------ claims --------------------------------- *)

Enumerated == {Available, CheckedOut}

Indices(bs, book_id) == {i \in 1..Len(bs) : bs[i].id = book_id}

\* C1: add appends and returns a record whose status is available and
\* whose id differs from the id of every record that was already in the
\* collection.
C1_AddFreshId ==
    call.op = "add" =>
        /\ ret.status = Available
        /\ books[Len(books)] = ret
        /\ \A i \in 1..(Len(books) - 1) : books[i].id # ret.id

\* C2: after an add, a successful remove or a successful update whose
\* file write succeeded, loading the file gives the in-memory collection
\* back: same records, same order, same ids, fields and statuses.
C2_RoundTrip ==
    (phase = "ready" /\ call.op \in {"add", "remove", "update"}
        /\ saved = "ok") =>
        /\ LoadRaises(file) = "none"
        /\ load_books(file) = books

C2_Witness ==
    /\ call.op = "update"
    /\ saved = "ok"
    /\ Len(books) = 2
    /\ books[1].status = CheckedOut
    /\ books[2].status = Available

\* the file is there and is not a sequence of records with the five fields
Malformed(f) ==
    \/ f.kind \in {"undecodable", "unparseable", "scalar", "object"}
    \/ f.kind = "list" /\ \E i \in 1..Len(f.data) : ~HasKeys(f.data[i])

\* C3: constructing a store on a malformed file never fails and gives an
\* empty collection.
C3_MalformedLoadsEmpty ==
    (call.op = "init" /\ Malformed(file)) =>
        /\ phase = "ready"
        /\ raised = "none"
        /\ books = << >>

\* C4: an update with a status outside the two enumerated values returns
\* failure, changes no record and does not write the file, whether the id
\* is present or not.
C4_InvalidStatusRejected ==
    [][(call'.op = "update" /\ call'.new_status \notin Enumerated) =>
          /\ ret' = FALSE
          /\ books' = books
          /\ file' = file
          /\ saved' = "none"]_vars

C4_Witness ==
    /\ call.op = "update"
    /\ call.new_status = "lost"
    /\ Indices(books, call.book_id) # {}
    /\ ret = FALSE

\* C5: a remove of an id no record has returns failure, leaves the
\* collection as it was and does not write the file.
C5_RemoveAbsent ==
    [][(call'.op = "remove" /\ Indices(books, call'.book_id) = {}) =>
          /\ ret' = FALSE
          /\ books' = books
          /\ file' = file
          /\ saved' = "none"]_vars

C5_Witness ==
    /\ call.op = "remove"
    /\ ret = FALSE
    /\ Len(books) = 2
    /\ Indices(books, call.book_id) = {}

\* C6 as stated: in every reachable state every record's status is one of
\* the two enumerated values.
C6_StatusEnumerated ==
    \A i \in 1..Len(books) : books[i].status \in Enumerated

\* C6 as amended: no step gives a record a status outside the two
\* enumerated values, except that construction takes over the status the
\* file holds for the record; such a record keeps it until it is updated
\* or removed.
C6_NoOperationBreaksStatus ==
    [][\A i \in 1..Len(books') :
          \/ books'[i].status \in Enumerated
          \/ \E j \in 1..Len(books) : books[j] = books'[i]
          \/ /\ call'.op = "init"
             /\ file.kind = "list"
             /\ file.data[i].status = books'[i].status]_vars

C6_Witness ==
    /\ call.op = "add"
    /\ Len(books) = 2
    /\ books[1].status = "lost"
    /\ books[2].status = Available

\* C7: when the file write fails, a remove or update of an existing id does
\* not report success, the collection keeps the change and the file does
\* not hold it.
C7_WriteFailureSurfaced ==
    (call.op \in {"remove", "update"} /\ saved = "failed") =>
        /\ ret # TRUE
        /\ (LoadRaises(file) # "none" \/ load_books(file) # books)

\* the claim's predicate of search, on the raw query
Satisfies(book, query, search_type) ==
    LET Substring(s, t) ==
            \E a \in 1..(Len(t) + 1), b \in 0..Len(t) : SubSeq(t, a, b) = s
    IN  \/ search_type = "title" /\ Substring(lower(query), lower(book.title))
        \/ search_type = "author"
              /\ Substring(lower(query), lower(book.author))
        \/ search_type = "year" /\ query = str(book.year)

\* is r the records of bs at the positions hits, in the order of bs
IsSelection(r, bs, hits) ==
    /\ Len(r) = Cardinality(hits)
    /\ \A i \in hits : r[Cardinality({j \in hits : j <= i})] = bs[i]

\* C8: search returns, in collection order, exactly the records that
\* satisfy the predicate of the field (nothing for an unknown field), and
\* changes neither the collection nor the file.
C8_SearchExact ==
    [][call'.op = "search" =>
          /\ IsSelection(ret', books,
                {i \in 1..Len(books) :
                    Satisfies(books[i], call'.query, call'.search_type)})
          /\ books' = books
          /\ file' = file
          /\ saved' = "none"]_vars

C8_Witness ==
    /\ call.op = "search"
    /\ call.search_type = "year"
    /\ call.query = <<"2", "0", "2", "0">>
    /\ Len(books) = 2
    /\ books[1].year = 12020
    /\ books[2].year = 2020
    /\ ret = <<books[2]>>

\* bs without its k-th record
RemoveAt(bs, k) == SubSeq(bs, 1, k - 1) \o SubSeq(bs, k + 1, Len(bs))

First(hits) == CHOOSE i \in hits : \A j \in hits : i <= j

\* C9: a remove of an id some record has removes exactly one record, the
\* first with that id, keeps all others in order and returns success.
C9_RemoveExactlyFirst ==
    [][(call'.op = "remove" /\ Indices(books, call'.book_id) # {}) =>
          /\ ret' = TRUE
          /\ Len(books') = Len(books) - 1
          /\ books' = RemoveAt(books, First(Indices(books, call'.book_id)))
      ]_vars

Fixed(book) == <<book.id, book.title, book.author, book.year>>

\* is a what is left of b after dropping some records
IsSubsequence(a, b) ==
    /\ Len(a) <= Len(b)
    /\ \E f \in [1..Len(a) -> 1..Len(b)] :
          /\ \A i, j \in 1..Len(a) : i < j => f[i] < f[j]
          /\ \A i \in 1..Len(a) : a[i] = b[f[i]]

\* C10: id, title, author and year of a record never change and the
\* collection stays in insertion order: add puts the new record last,
\* remove and update do not reorder, search changes nothing, and an update
\* changes the status of the first record with the id only.
C10_OrderAndIdentity ==
    [][/\ call'.op = "add" => books' = Append(books, ret')
       /\ call'.op = "remove" => IsSubsequence(books', books)
       /\ call'.op = "search" => books' = books
       /\ call'.op = "update" =>
             /\ Len(books') = Len(books)
             /\ \A i \in 1..Len(books) :
                   /\ Fixed(books'[i]) = Fixed(books[i])
                   /\ books'[i].status # books[i].status =>
                         i = First(Indices(books, call'.book_id))]_vars

C10_Witness ==
    /\ call.op = "update"
    /\ ret = TRUE
    /\ Len(books) = 2
    /\ books[1].id = call.book_id
    /\ books[2].id = call.book_id
    /\ books[1].status = CheckedOut
    /\ books[2].status = Available

====
